---- MODULE Spec2Model ----
(***************************************************************************)
(* A model of the construction-project prediction service:                 *)
(*   app/model.py      the three loaded predictors and their column lists  *)
(*   app/main.py       the three form handlers (/predict, /predict-cost,   *)
(*                     /predict-time) and the start-up of the process      *)
(*   app/visualize.py  the four chart renderers writing to static/         *)
(*                                                                         *)
(* Numbers: form floats are modelled by integers; probabilities and the    *)
(* confidence are in hundredths (0.85 is 85, 1.0 is 100).                  *)
(***************************************************************************)
EXTENDS Integers, Sequences, FiniteSets, TLC

VARIABLES
    boot,               \* position of the start-up (module import) sequence
    loads,              \* joblib.load calls completed, per artifact file
    feasibility_model,  \* model.py global
    cost_model,         \* model.py global
    time_model,         \* model.py global
    model,              \* main.py global (handed to the renderers)
    models_dir,         \* the artifact files on disk (read-only input)
    req,                \* the requests: handler position and locals
    static,             \* the four chart files under static/
    enc                 \* the form being encoded (encoder specification only)

vars == <<boot, loads, feasibility_model, cost_model, time_model, model,
          models_dir, req, static, enc>>

(***************************************************************************)
(* Bounds                                                                  *)
(***************************************************************************)
\* requests in one run of the concurrent server
MaxRequests == 2
\* requests in one run of the server taking one request at a time
MaxSerialRequests == 3

\* Python's None for a string-valued slot; an optional value of another type is
\* the empty tuple or the one-element tuple holding it
None == "None"
Nothing == << >>
Some(v) == << v >>
The(o) == o[1]

(***************************************************************************)
(* Column lists                                                            *)
(***************************************************************************)
FEATURE_NAMES ==
    << "Estimated_Cost_USD", "Time_Estimate_Days", "Resource_Allocation_Score",
       "Risk_Assessment_Score", "Environmental_Impact_Score",
       "Historical_Cost_Deviation_%", "Stakeholder_Priority_Score",
       "Scope_Complexity_Numeric", "Project_Type_Building",
       "Project_Type_Power Plant", "Project_Type_Road",
       "Project_Type_Water Infra" >>

COST_FEATURE_NAMES ==
    << "Scope_Complexity_Numeric", "Resource_Allocation_Score",
       "Risk_Assessment_Score", "Environmental_Impact_Score",
       "Historical_Cost_Deviation_%", "Stakeholder_Priority_Score",
       "Project_Type_Building", "Project_Type_Power Plant",
       "Project_Type_Road", "Project_Type_Water Infra" >>

TIME_FEATURE_NAMES ==
    << "Resource_Allocation_Score", "Risk_Assessment_Score",
       "Environmental_Impact_Score", "Historical_Cost_Deviation_%",
       "Stakeholder_Priority_Score", "Scope_Complexity_Numeric",
       "Project_Type_Building", "Project_Type_Power Plant",
       "Project_Type_Road", "Project_Type_Water Infra" >>

FEATURES == FEATURE_NAMES

\* variant: the list with one name repeated in place of another
PROJECT_TYPES_ENCODED_dup == << "Building", "Power Plant", "Road", "Road" >>

PROJECT_TYPES_ENCODED == << "Building", "Power Plant", "Road", "Water Infra" >>

Routes == { "predict", "predict-cost", "predict-time" }

(***************************************************************************)
(* Form records.  A form carries the project type as a free string and the *)
(* eight numeric fields (the cost and time forms do not carry the first    *)
(* two; their handlers never read them).                                   *)
(***************************************************************************)
Form(pt, c, t, res, risk, env, dev, stk, cx) ==
    [ Project_Type               |-> pt,
      Estimated_Cost_USD         |-> c,
      Time_Estimate_Days         |-> t,
      Resource_Allocation_Score  |-> res,
      Risk_Assessment_Score      |-> risk,
      Environmental_Impact_Score |-> env,
      Historical_Cost_Deviation_ |-> dev,
      Stakeholder_Priority_Score |-> stk,
      Scope_Complexity_Numeric   |-> cx ]

\* the project types a client may send: the reference category, the four
\* encoded ones, and strings the form's select does not offer
ProjectTypeStrings ==
    { "Bridge", "Building", "Power Plant", "Road", "Water Infra",
      "Tunnel", "road", "" }

NumericProfiles ==
    { << 500000, 120, 7, 6, 5, 10, 8, 2 >>,
      << 250000, 90, 4, 9, 3, 25, 2, 3 >>,
      << 0, 0, 0, 0, 0, 0, 0, 0 >>,
      << 2000000, 400, 11, 12, 10, 60, 10, 1 >> }

FormOf(pt, n) == Form(pt, n[1], n[2], n[3], n[4], n[5], n[6], n[7], n[8])

EncoderForms == { FormOf(pt, n) : pt \in ProjectTypeStrings, n \in NumericProfiles }

(***************************************************************************)
(* Feature encoding, as the three handlers write it                        *)
(***************************************************************************)
\* variant: a string that is no known category falls back on the first indicator
one_hot_first(Project_Type) ==
    IF \E i \in 1..Len(PROJECT_TYPES_ENCODED) : PROJECT_TYPES_ENCODED[i] = Project_Type
    THEN [ i \in 1..Len(PROJECT_TYPES_ENCODED) |->
             IF PROJECT_TYPES_ENCODED[i] = Project_Type THEN 1 ELSE 0 ]
    ELSE [ i \in 1..Len(PROJECT_TYPES_ENCODED) |->
             IF i = 1 /\ Project_Type # "Bridge" THEN 1 ELSE 0 ]

\* [1 if pt == Project_Type else 0 for pt in PROJECT_TYPES_ENCODED]
project_type_encoded(Project_Type) ==
    [ i \in 1..Len(PROJECT_TYPES_ENCODED) |->
        IF PROJECT_TYPES_ENCODED[i] = Project_Type THEN 1 ELSE 0 ]

predict_input_data(f) ==
    << f.Estimated_Cost_USD, f.Time_Estimate_Days, f.Resource_Allocation_Score,
       f.Risk_Assessment_Score, f.Environmental_Impact_Score,
       f.Historical_Cost_Deviation_, f.Stakeholder_Priority_Score,
       f.Scope_Complexity_Numeric >> \o project_type_encoded(f.Project_Type)

\* variant: the cost handler building its vector in the time model's order
cost_input_data_time_order(f) ==
    << f.Resource_Allocation_Score, f.Risk_Assessment_Score,
       f.Environmental_Impact_Score, f.Historical_Cost_Deviation_,
       f.Stakeholder_Priority_Score, f.Scope_Complexity_Numeric >>
    \o project_type_encoded(f.Project_Type)

cost_input_data(f) ==
    << f.Scope_Complexity_Numeric, f.Resource_Allocation_Score,
       f.Risk_Assessment_Score, f.Environmental_Impact_Score,
       f.Historical_Cost_Deviation_, f.Stakeholder_Priority_Score >>
    \o project_type_encoded(f.Project_Type)

time_input_data(f) ==
    << f.Resource_Allocation_Score, f.Risk_Assessment_Score,
       f.Environmental_Impact_Score, f.Historical_Cost_Deviation_,
       f.Stakeholder_Priority_Score, f.Scope_Complexity_Numeric >>
    \o project_type_encoded(f.Project_Type)

\* the vector the handler of `route` builds from form f
input_data_of(route, f) ==
    CASE route = "predict"      -> predict_input_data(f)
      [] route = "predict-cost" -> cost_input_data(f)
      [] route = "predict-time" -> time_input_data(f)

\* the column list model.py declares for the predictor behind `route`
columns_of(route) ==
    CASE route = "predict"      -> FEATURE_NAMES
      [] route = "predict-cost" -> COST_FEATURE_NAMES
      [] route = "predict-time" -> TIME_FEATURE_NAMES

(***************************************************************************)
(* The model artifacts.  They are produced outside this repository; an     *)
(* artifact is modelled by what the code asks of it: predict, and for a    *)
(* classifier possibly predict_proba.  Its answers are a fixed function of *)
(* the artifact and the row it is given.                                   *)
(***************************************************************************)
Missing == [ kind |-> "missing" ]
Unloaded == [ kind |-> "unloaded" ]

FeasibilityArtifacts ==
    { [ kind |-> "classifier", n_classes |-> 3, seed |-> 0, has_predict_proba |-> TRUE ],
      [ kind |-> "classifier", n_classes |-> 3, seed |-> 1, has_predict_proba |-> FALSE ],
      [ kind |-> "classifier", n_classes |-> 4, seed |-> 2, has_predict_proba |-> TRUE ] }

CostArtifacts == { [ kind |-> "regressor", seed |-> 1000 ] }

TimeArtifacts == { [ kind |-> "regressor", seed |-> 30 ] }

RECURSIVE Weighted(_, _)
Weighted(v, i) == IF i > Len(v) THEN 0 ELSE i * v[i] + Weighted(v, i + 1)

\* estimator.predict(df)[0]
artifact_predict(m, row) ==
    IF m.kind = "classifier"
    THEN (Weighted(row, 1) + m.seed) % m.n_classes
    ELSE Weighted(row, 1) + m.seed

\* estimator.predict_proba(df)[0]: one probability per class, summing to 1
artifact_predict_proba(m, row) ==
    LET top  == 40 + 30 * (Weighted(row, 1) % 3)
        rest == (100 - top) \div (m.n_classes - 1)
        cls  == artifact_predict(m, row)
    IN  [ k \in 1..m.n_classes |-> IF k = cls + 1 THEN top ELSE rest ]

RECURSIVE SeqMax(_, _)
SeqMax(s, i) ==
    IF i = Len(s) THEN s[i]
    ELSE LET rest == SeqMax(s, i + 1) IN IF s[i] >= rest THEN s[i] ELSE rest

\* pd.DataFrame([input_data], columns=...) raises ValueError unless the row
\* has as many values as there are columns
DataFrameOk(input_data, columns) == Len(input_data) = Len(columns)

Returned(v) == [ raised |-> None, value |-> v ]
Raised(e)   == [ raised |-> e, value |-> None ]

\* variant: an estimator whose answer drifts with the predictions already made
predict_feasibility_stateful(m, input_data, fault) ==
    IF ~DataFrameOk(input_data, FEATURE_NAMES) THEN Raised("ValueError")
    ELSE IF fault # None THEN Raised(fault)
    ELSE Returned((artifact_predict(m, input_data)
                     + Cardinality({ o \in DOMAIN req : req[o].result # Nothing }))
                  % m.n_classes)

\* model.predict_feasibility; `fault` is what the estimator call raises, if anything
predict_feasibility(m, input_data, fault) ==
    IF ~DataFrameOk(input_data, FEATURE_NAMES) THEN Raised("ValueError")
    ELSE IF fault # None THEN Raised(fault)
    ELSE Returned(artifact_predict(m, input_data))

\* what an estimator's predict may raise: nothing, a transient failure of the
\* call, or the AttributeError of an estimator pickled by another library version
EstimatorFaults == { None, "MemoryError", "AttributeError" }

\* feasibility_model.predict_proba: a model without the method raises
\* AttributeError at the attribute lookup; one with it may fail transiently
predict_proba_faults(m) ==
    IF m.has_predict_proba THEN { None, "MemoryError" } ELSE { "AttributeError" }

\* variant: no except clause
get_prediction_confidence_no_except(m, input_data, fault) ==
    IF ~DataFrameOk(input_data, FEATURE_NAMES) THEN Raised("ValueError")
    ELSE IF fault # None THEN Raised(fault)
    ELSE Returned(SeqMax(artifact_predict_proba(m, input_data), 1))

\* variant: a bare except clause
get_prediction_confidence_except_all(m, input_data, fault) ==
    IF ~DataFrameOk(input_data, FEATURE_NAMES) THEN Returned(85)
    ELSE IF fault # None THEN Returned(85)
    ELSE Returned(SeqMax(artifact_predict_proba(m, input_data), 1))

\* model.get_prediction_confidence: try ... except AttributeError: return 0.85
get_prediction_confidence(m, input_data, fault) ==
    IF ~DataFrameOk(input_data, FEATURE_NAMES) THEN Raised("ValueError")
    ELSE IF fault = "AttributeError" THEN Returned(85)
    ELSE IF fault # None THEN Raised(fault)
    ELSE Returned(SeqMax(artifact_predict_proba(m, input_data), 1))

\* model.predict_cost
predict_cost(m, input_data, fault) ==
    IF ~DataFrameOk(input_data, COST_FEATURE_NAMES) THEN Raised("ValueError")
    ELSE IF fault # None THEN Raised(fault)
    ELSE Returned(artifact_predict(m, input_data))

\* model.predict_time
predict_time(m, input_data, fault) ==
    IF ~DataFrameOk(input_data, TIME_FEATURE_NAMES) THEN Raised("ValueError")
    ELSE IF fault # None THEN Raised(fault)
    ELSE Returned(artifact_predict(m, input_data))

\* label_map[result]
label_map(result) ==
    CASE result = 0 -> Returned("Not Feasible")
      [] result = 1 -> Returned("Feasible")
      [] result = 2 -> Returned("Borderline")
      [] OTHER      -> Raised("KeyError")

(***************************************************************************)
(* The chart renderers.  A chart file holds what was drawn into it; `by`   *)
(* records the request whose handler wrote it.                             *)
(***************************************************************************)
Charts == { "feature_importance.png", "radar_chart.png", "gauge_chart.png",
            "distribution_chart.png" }

Min(a, b) == IF a <= b THEN a ELSE b
Max(a, b) == IF a >= b THEN a ELSE b

\* zip(input_data, max_vals) stops at the shorter of the two
ZipLen(input_data, max_vals) == Min(Len(input_data), Len(max_vals))

\* generate_feature_importance(model, feature_names): the bars of the model
feature_importance_drawing(m, feature_names) ==
    [ importance_of |-> m, features |-> feature_names ]

\* generate_radar_chart: min(v / m, 1), in hundredths
radar_drawing(input_data) ==
    LET max_vals == << 1000000, 365, 10, 10, 10, 50, 10, 3 >>
    IN  [ i \in 1..ZipLen(input_data, max_vals) |->
            Min((input_data[i] * 100) \div max_vals[i], 100) ]

\* result_colors.get(result, '#333')
result_colors ==
    [ Feasible |-> "#11998e" ] @@ ("Not Feasible" :> "#eb3349") @@ ("Uncertain" :> "#f5af19")

result_color(result) ==
    IF result \in DOMAIN result_colors THEN result_colors[result] ELSE "#333"

\* generate_gauge_chart(risk_score, result): needle at min(max(risk/10, 0), 1),
\* in hundredths, and the result text in its colour
gauge_drawing(risk_score, result) ==
    [ needle |-> Min(Max(risk_score * 10, 0), 100),
      text   |-> result,
      color  |-> result_color(result) ]

\* generate_distribution_chart: min(v / m * 10, 10), in hundredths
distribution_drawing(input_data) ==
    LET max_vals == << 100000, 100, 10, 10, 10, 20, 10, 3 >>
    IN  [ i \in 1..ZipLen(input_data, max_vals) |->
            Min((input_data[i] * 1000) \div max_vals[i], 1000) ]

\* generate_all_visualizations hands input_data[3] (0-based) to the gauge
gauge_risk_argument(input_data) == input_data[4]

\* what request handler r would draw into chart c
Drawing(c, m, input_data, result) ==
    CASE c = "feature_importance.png" -> feature_importance_drawing(m, FEATURES)
      [] c = "radar_chart.png"        -> radar_drawing(input_data)
      [] c = "gauge_chart.png"        -> gauge_drawing(gauge_risk_argument(input_data), result)
      [] c = "distribution_chart.png" -> distribution_drawing(input_data)

(***************************************************************************)
(* State                                                                   *)
(***************************************************************************)
Requests == DOMAIN req

ArtifactFiles == { "feasibility_model2.pkl", "cost_model.pkl", "time_model.pkl" }

\* the forms the clients of the running server send
ServerForms ==
    { FormOf("Road", << 500000, 120, 7, 6, 5, 10, 8, 2 >>),
      FormOf("Bridge", << 250000, 90, 4, 9, 3, 25, 2, 3 >>) }

IdleRequest ==
    [ pc           |-> "idle",
      route        |-> None,
      form         |-> Nothing,
      input_data   |-> << >>,
      result       |-> Nothing,
      confidence   |-> Nothing,
      result_label |-> Nothing,
      last_call    |-> [ name |-> None, fault |-> None ],
      raised       |-> None,
      wrote        |-> {},
      page         |-> Nothing ]

NoForm == [ route |-> None, form |-> Nothing, input_data |-> << >>, phase |-> "unused" ]

ServerInit(n) ==
    /\ boot = "model.py:7"
    /\ loads = [ f \in ArtifactFiles |-> 0 ]
    /\ feasibility_model = Unloaded
    /\ cost_model = Unloaded
    /\ time_model = Unloaded
    /\ model = Unloaded
    /\ req = [ r \in 1..n |-> IdleRequest ]
    /\ static = [ c \in Charts |-> Nothing ]

Init ==
    /\ ServerInit(MaxRequests)
    /\ models_dir \in
         { [ f \in ArtifactFiles |->
               CASE f = "feasibility_model2.pkl" -> a
                 [] f = "cost_model.pkl"         -> b
                 [] f = "time_model.pkl"         -> c ] :
           a \in FeasibilityArtifacts \cup { Missing },
           b \in CostArtifacts \cup { Missing },
           c \in TimeArtifacts \cup { Missing } }
    /\ enc = NoForm

(***************************************************************************)
(* Start-up: the module-level statements, in import order.  main.py line 8 *)
(* imports model.py, whose lines 7-9 load the three artifacts; main.py     *)
(* line 30 then loads the feasibility artifact again into its own global.  *)
(* joblib.load raises on a missing or unreadable file, which ends the      *)
(* process before it serves.                                               *)
(***************************************************************************)
joblib_load(file) == models_dir[file]

LoadStep(at, file, next) ==
    /\ boot = at
    /\ IF joblib_load(file) = Missing
       THEN boot' = "failed" /\ loads' = loads
       ELSE boot' = next /\ loads' = [ loads EXCEPT ![file] = @ + 1 ]

LoadFeasibilityModel ==
    /\ LoadStep("model.py:7", "feasibility_model2.pkl", "model.py:8")
    /\ feasibility_model' =
         IF boot' = "failed" THEN feasibility_model
         ELSE joblib_load("feasibility_model2.pkl")
    /\ UNCHANGED << cost_model, time_model, model, models_dir, req, static, enc >>

LoadCostModel ==
    /\ LoadStep("model.py:8", "cost_model.pkl", "model.py:9")
    /\ cost_model' =
         IF boot' = "failed" THEN cost_model ELSE joblib_load("cost_model.pkl")
    /\ UNCHANGED << feasibility_model, time_model, model, models_dir, req, static, enc >>

LoadTimeModel ==
    /\ LoadStep("model.py:9", "time_model.pkl", "main.py:30")
    /\ time_model' =
         IF boot' = "failed" THEN time_model ELSE joblib_load("time_model.pkl")
    /\ UNCHANGED << feasibility_model, cost_model, model, models_dir, req, static, enc >>

LoadMainModel ==
    /\ LoadStep("main.py:30", "feasibility_model2.pkl", "serving")
    /\ model' =
         IF boot' = "failed" THEN model ELSE joblib_load("feasibility_model2.pkl")
    /\ UNCHANGED << feasibility_model, cost_model, time_model, models_dir, req, static, enc >>

(***************************************************************************)
(* Request handlers.  The three handlers are plain `def` endpoints, which  *)
(* the framework runs on worker threads: a handler that has started may    *)
(* take its next step whatever the other requests are doing.               *)
(***************************************************************************)
InHandler(r) == req[r].pc \notin { "idle", "done", "error" }

\* variant: `async def` endpoints without an await, run one at a time on the event loop
SchedulableSerial(r) == \A o \in Requests \ { r } : ~InHandler(o)

Schedulable(r) == TRUE

\* variant: generate_all_visualizations without its last renderer
NextCallNoDistribution(route, pc) ==
    CASE route = "predict" /\ pc = "start"                       -> "predict_feasibility"
      [] route = "predict" /\ pc = "predict_feasibility"         -> "get_prediction_confidence"
      [] route = "predict" /\ pc = "get_prediction_confidence"   -> "label_map"
      [] route = "predict" /\ pc = "label_map"                   -> "generate_feature_importance"
      [] route = "predict" /\ pc = "generate_feature_importance" -> "generate_radar_chart"
      [] route = "predict" /\ pc = "generate_radar_chart"        -> "generate_gauge_chart"
      [] route = "predict" /\ pc = "generate_gauge_chart"        -> "respond"
      [] route = "predict" /\ pc = "generate_distribution_chart" -> "respond"
      [] route = "predict-cost" /\ pc = "start"                  -> "predict_cost"
      [] route = "predict-cost" /\ pc = "predict_cost"           -> "respond"
      [] route = "predict-time" /\ pc = "start"                  -> "predict_time"
      [] route = "predict-time" /\ pc = "predict_time"           -> "respond"

\* the handler's sequence of calls
NextCall(route, pc) ==
    CASE route = "predict" /\ pc = "start"                       -> "predict_feasibility"
      [] route = "predict" /\ pc = "predict_feasibility"         -> "get_prediction_confidence"
      [] route = "predict" /\ pc = "get_prediction_confidence"   -> "label_map"
      [] route = "predict" /\ pc = "label_map"                   -> "generate_feature_importance"
      [] route = "predict" /\ pc = "generate_feature_importance" -> "generate_radar_chart"
      [] route = "predict" /\ pc = "generate_radar_chart"        -> "generate_gauge_chart"
      [] route = "predict" /\ pc = "generate_gauge_chart"        -> "generate_distribution_chart"
      [] route = "predict" /\ pc = "generate_distribution_chart" -> "respond"
      [] route = "predict-cost" /\ pc = "start"                  -> "predict_cost"
      [] route = "predict-cost" /\ pc = "predict_cost"           -> "respond"
      [] route = "predict-time" /\ pc = "start"                  -> "predict_time"
      [] route = "predict-time" /\ pc = "predict_time"           -> "respond"

ServerUnchanged ==
    UNCHANGED << boot, loads, feasibility_model, cost_model, time_model, model,
                 models_dir, enc >>

\* a form arrives and the handler assembles input_data; requests are numbered
\* in arrival order
Receive(r) ==
    /\ boot = "serving"
    /\ req[r].pc = "idle"
    /\ \A o \in Requests : o < r => req[o].pc # "idle"
    /\ Schedulable(r)
    /\ \E route \in Routes, f \in ServerForms :
         req' = [ req EXCEPT ![r] =
                    [ @ EXCEPT !.pc = NextCall(route, "start"),
                               !.route = route,
                               !.form = Some(f),
                               !.input_data = input_data_of(route, f) ] ]
    /\ UNCHANGED static
    /\ ServerUnchanged

\* the handler's state after a call of `name` that stored its value in `field`:
\* an exception leaving the call is handled nowhere and ends the request
AfterCall(r, name, fault, out, field) ==
    IF out.raised # None
    THEN [ req[r] EXCEPT !.pc = "error",
                         !.raised = out.raised,
                         !.last_call = [ name |-> name, fault |-> out.raised ] ]
    ELSE [ req[r] EXCEPT !.pc = NextCall(req[r].route, name),
                         ![field] = Some(out.value),
                         !.last_call = [ name |-> name, fault |-> fault ] ]

PredictFeasibility(r) ==
    /\ req[r].pc = "predict_feasibility"
    /\ Schedulable(r)
    /\ \E fault \in EstimatorFaults :
         req' = [ req EXCEPT ![r] =
                    AfterCall(r, "predict_feasibility", fault,
                              predict_feasibility(feasibility_model, req[r].input_data, fault),
                              "result") ]
    /\ UNCHANGED static
    /\ ServerUnchanged

GetPredictionConfidence(r) ==
    /\ req[r].pc = "get_prediction_confidence"
    /\ Schedulable(r)
    /\ \E fault \in predict_proba_faults(feasibility_model) :
         req' = [ req EXCEPT ![r] =
                    AfterCall(r, "get_prediction_confidence", fault,
                              get_prediction_confidence(feasibility_model,
                                                        req[r].input_data, fault),
                              "confidence") ]
    /\ UNCHANGED static
    /\ ServerUnchanged

LabelMap(r) ==
    /\ req[r].pc = "label_map"
    /\ Schedulable(r)
    /\ req' = [ req EXCEPT ![r] =
                  AfterCall(r, "label_map", None, label_map(The(req[r].result)),
                            "result_label") ]
    /\ UNCHANGED static
    /\ ServerUnchanged

PredictCost(r) ==
    /\ req[r].pc = "predict_cost"
    /\ Schedulable(r)
    /\ \E fault \in EstimatorFaults :
         req' = [ req EXCEPT ![r] =
                    AfterCall(r, "predict_cost", fault,
                              predict_cost(cost_model, req[r].input_data, fault),
                              "result") ]
    /\ UNCHANGED static
    /\ ServerUnchanged

PredictTime(r) ==
    /\ req[r].pc = "predict_time"
    /\ Schedulable(r)
    /\ \E fault \in EstimatorFaults :
         req' = [ req EXCEPT ![r] =
                    AfterCall(r, "predict_time", fault,
                              predict_time(time_model, req[r].input_data, fault),
                              "result") ]
    /\ UNCHANGED static
    /\ ServerUnchanged

\* one renderer of generate_all_visualizations: draw, then savefig to the
\* chart's fixed path; a rendering error leaves the file as it was
RendererFaults == { None, "OSError" }

Render(r, name, c) ==
    /\ Schedulable(r)
    /\ \E fault \in RendererFaults :
         IF fault # None
         THEN /\ req' = [ req EXCEPT ![r] =
                            [ @ EXCEPT !.pc = "error",
                                       !.raised = fault,
                                       !.last_call = [ name |-> name, fault |-> fault ] ] ]
              /\ UNCHANGED static
         ELSE /\ static' = [ static EXCEPT ![c] =
                               Some([ by      |-> r,
                                      drawing |-> Drawing(c, model, req[r].input_data,
                                                          The(req[r].result_label)) ]) ]
              /\ req' = [ req EXCEPT ![r] =
                            [ @ EXCEPT !.pc = NextCall(req[r].route, name),
                                       !.wrote = @ \cup { c },
                                       !.last_call = [ name |-> name, fault |-> None ] ] ]
    /\ ServerUnchanged

GenerateFeatureImportance(r) ==
    /\ req[r].pc = "generate_feature_importance"
    /\ Render(r, "generate_feature_importance", "feature_importance.png")

GenerateRadarChart(r) ==
    /\ req[r].pc = "generate_radar_chart"
    /\ Render(r, "generate_radar_chart", "radar_chart.png")

GenerateGaugeChart(r) ==
    /\ req[r].pc = "generate_gauge_chart"
    /\ Render(r, "generate_gauge_chart", "gauge_chart.png")

GenerateDistributionChart(r) ==
    /\ req[r].pc = "generate_distribution_chart"
    /\ Render(r, "generate_distribution_chart", "distribution_chart.png")

\* the context handed to templates.TemplateResponse
PageOf(q) ==
    CASE q.route = "predict" ->
           [ active_tab |-> "feasibility", result |-> The(q.result_label),
             confidence |-> q.confidence, plots |-> Charts ]
      [] q.route = "predict-cost" ->
           [ active_tab |-> "cost", result |-> The(q.result),
             confidence |-> Nothing, plots |-> {} ]
      [] q.route = "predict-time" ->
           [ active_tab |-> "time", result |-> The(q.result),
             confidence |-> Nothing, plots |-> {} ]

Respond(r) ==
    /\ req[r].pc = "respond"
    /\ Schedulable(r)
    /\ req' = [ req EXCEPT ![r] = [ @ EXCEPT !.pc = "done", !.page = Some(PageOf(req[r])) ] ]
    /\ UNCHANGED static
    /\ ServerUnchanged

Next ==
    \/ LoadFeasibilityModel
    \/ LoadCostModel
    \/ LoadTimeModel
    \/ LoadMainModel
    \/ \E r \in Requests : Receive(r)
    \/ \E r \in Requests : PredictFeasibility(r)
    \/ \E r \in Requests : GetPredictionConfidence(r)
    \/ \E r \in Requests : LabelMap(r)
    \/ \E r \in Requests : PredictCost(r)
    \/ \E r \in Requests : PredictTime(r)
    \/ \E r \in Requests : GenerateFeatureImportance(r)
    \/ \E r \in Requests : GenerateRadarChart(r)
    \/ \E r \in Requests : GenerateGaugeChart(r)
    \/ \E r \in Requests : GenerateDistributionChart(r)
    \/ \E r \in Requests : Respond(r)

Spec == Init /\ [][Next]_vars

(***************************************************************************)
(* The same server with its clients sending one request at a time: a form  *)
(* is sent only after the previous request was answered or failed.         *)
(***************************************************************************)
InitSerial ==
    /\ ServerInit(MaxSerialRequests)
    /\ models_dir \in
         { [ f \in ArtifactFiles |->
               CASE f = "feasibility_model2.pkl" -> a
                 [] f = "cost_model.pkl"         -> b
                 [] f = "time_model.pkl"         -> c ] :
           a \in FeasibilityArtifacts, b \in CostArtifacts, c \in TimeArtifacts }
    /\ enc = NoForm

ReceiveNext(r) ==
    /\ \A o \in Requests : ~InHandler(o)
    /\ Receive(r)

NextSerial ==
    \/ LoadFeasibilityModel
    \/ LoadCostModel
    \/ LoadTimeModel
    \/ LoadMainModel
    \/ \E r \in Requests : ReceiveNext(r)
    \/ \E r \in Requests : PredictFeasibility(r)
    \/ \E r \in Requests : GetPredictionConfidence(r)
    \/ \E r \in Requests : LabelMap(r)
    \/ \E r \in Requests : PredictCost(r)
    \/ \E r \in Requests : PredictTime(r)
    \/ \E r \in Requests : GenerateFeatureImportance(r)
    \/ \E r \in Requests : GenerateRadarChart(r)
    \/ \E r \in Requests : GenerateGaugeChart(r)
    \/ \E r \in Requests : GenerateDistributionChart(r)
    \/ \E r \in Requests : Respond(r)

SpecSerial == InitSerial /\ [][NextSerial]_vars

(***************************************************************************)
(* The feature encoder on its own: any form, any of the three handlers.    *)
(***************************************************************************)
InitEncode ==
    /\ ServerInit(MaxRequests)
    /\ models_dir = [ f \in ArtifactFiles |-> Missing ]
    /\ enc \in { [ route |-> route, form |-> Some(f), input_data |-> << >>, phase |-> "form" ] :
                 route \in Routes, f \in EncoderForms }

Encode ==
    /\ enc.phase = "form"
    /\ enc' = [ enc EXCEPT !.input_data = input_data_of(enc.route, The(enc.form)),
                           !.phase = "encoded" ]
    /\ UNCHANGED << boot, loads, feasibility_model, cost_model, time_model, model,
                    models_dir, req, static >>

NextEncode == Encode

SpecEncode == InitEncode /\ [][NextEncode]_vars

(***************************************************************************)
(* Properties of the feature encoder (checked under SpecEncode)            *)
(***************************************************************************)
Indicator(f, category) == IF f.Project_Type = category THEN 1 ELSE 0

\* the form field, or project-type indicator, that a training column names
ColumnValue(f, col) ==
    CASE col = "Estimated_Cost_USD"          -> f.Estimated_Cost_USD
      [] col = "Time_Estimate_Days"          -> f.Time_Estimate_Days
      [] col = "Resource_Allocation_Score"   -> f.Resource_Allocation_Score
      [] col = "Risk_Assessment_Score"       -> f.Risk_Assessment_Score
      [] col = "Environmental_Impact_Score"  -> f.Environmental_Impact_Score
      [] col = "Historical_Cost_Deviation_%" -> f.Historical_Cost_Deviation_
      [] col = "Stakeholder_Priority_Score"  -> f.Stakeholder_Priority_Score
      [] col = "Scope_Complexity_Numeric"    -> f.Scope_Complexity_Numeric
      [] col = "Project_Type_Building"       -> Indicator(f, "Building")
      [] col = "Project_Type_Power Plant"    -> Indicator(f, "Power Plant")
      [] col = "Project_Type_Road"           -> Indicator(f, "Road")
      [] col = "Project_Type_Water Infra"    -> Indicator(f, "Water Infra")

FiveScores(f) ==
    << f.Resource_Allocation_Score, f.Risk_Assessment_Score,
       f.Environmental_Impact_Score, f.Historical_Cost_Deviation_,
       f.Stakeholder_Priority_Score >>

RoadExample == FormOf("Road", << 500000, 120, 7, 6, 5, 10, 8, 2 >>)

Encoded == enc.phase = "encoded"

\* the last four elements of an encoded vector: the project-type indicators
IndicatorBlock(v) == SubSeq(v, Len(v) - 3, Len(v))

\* C1: for each handler and every form, element i of the vector it builds is the
\* form field (or project-type indicator) named by entry i of the predictor's
\* column list; the Road example encodes to [500000,120,7,6,5,10,8,2,0,0,1,0];
\* the cost vector leads with complexity then the five scores, the time vector
\* has the five scores then complexity, and the two column orders differ.
C1_VectorFollowsColumns ==
    Encoded =>
      LET f    == The(enc.form)
          v    == enc.input_data
          cols == columns_of(enc.route)
      IN  /\ Len(v) = Len(cols)
          /\ \A i \in 1..Len(cols) : v[i] = ColumnValue(f, cols[i])
          /\ (enc.route = "predict" /\ f = RoadExample)
               => v = << 500000, 120, 7, 6, 5, 10, 8, 2, 0, 0, 1, 0 >>
          /\ enc.route = "predict-cost"
               => /\ v[1] = f.Scope_Complexity_Numeric
                  /\ SubSeq(v, 2, 6) = FiveScores(f)
          /\ enc.route = "predict-time"
               => /\ SubSeq(v, 1, 5) = FiveScores(f)
                  /\ v[6] = f.Scope_Complexity_Numeric
          /\ COST_FEATURE_NAMES # TIME_FEATURE_NAMES

C1_Witness ==
    /\ Encoded
    /\ enc.route = "predict-cost"
    /\ The(enc.form) = RoadExample
    /\ enc.input_data = << 2, 7, 6, 5, 10, 8, 0, 0, 1, 0 >>

\* C2: whatever the project-type string, the encoded vector has 12 elements for
\* the feasibility model and 10 for the cost and the time model, and at most
\* one of the four project-type indicators is 1, the others 0.
C2_LengthAndAtMostOneIndicator ==
    Encoded =>
      LET v == enc.input_data
          b == IndicatorBlock(v)
      IN  /\ enc.route = "predict" => Len(v) = 12
          /\ enc.route \in { "predict-cost", "predict-time" } => Len(v) = 10
          /\ \A i \in 1..4 : b[i] \in { 0, 1 }
          /\ Cardinality({ i \in 1..4 : b[i] = 1 }) <= 1

C2_Witness ==
    /\ Encoded
    /\ enc.route = "predict-time"
    /\ The(enc.form).Project_Type = "Water Infra"
    /\ Len(enc.input_data) = 10
    /\ IndicatorBlock(enc.input_data) = << 0, 0, 0, 1 >>

\* C3: in all three handlers 'Bridge' and any string that is not one of the
\* four encoded names give four zero indicators, so with equal numeric fields
\* the vector equals the one built for 'Bridge' (nothing is raised: the form is
\* encoded); each encoded name sets exactly its own indicator.
C3_ReferenceAndUnknownAllZero ==
    Encoded =>
      LET f == The(enc.form)
          v == enc.input_data
          b == IndicatorBlock(v)
          bridge == [ f EXCEPT !.Project_Type = "Bridge" ]
      IN  /\ f.Project_Type \notin { "Building", "Power Plant", "Road", "Water Infra" }
               => /\ b = << 0, 0, 0, 0 >>
                  /\ v = input_data_of(enc.route, bridge)
          /\ f.Project_Type = "Building"    => b = << 1, 0, 0, 0 >>
          /\ f.Project_Type = "Power Plant" => b = << 0, 1, 0, 0 >>
          /\ f.Project_Type = "Road"        => b = << 0, 0, 1, 0 >>
          /\ f.Project_Type = "Water Infra" => b = << 0, 0, 0, 1 >>

C3_Witness ==
    /\ Encoded
    /\ The(enc.form).Project_Type = "Tunnel"
    /\ enc.route = "predict"
    /\ IndicatorBlock(enc.input_data) = << 0, 0, 0, 0 >>
    /\ enc.input_data[1] = 250000

(***************************************************************************)
(* Properties of the running server (checked under Spec)                   *)
(***************************************************************************)
Done(r)   == req[r].pc = "done"
Failed(r) == req[r].pc = "error"

RenderCalls ==
    << "generate_feature_importance", "generate_radar_chart",
       "generate_gauge_chart", "generate_distribution_chart" >>

ChartOf(call) ==
    CASE call = "generate_feature_importance" -> "feature_importance.png"
      [] call = "generate_radar_chart"        -> "radar_chart.png"
      [] call = "generate_gauge_chart"        -> "gauge_chart.png"
      [] call = "generate_distribution_chart" -> "distribution_chart.png"

Rendering(r) == \E k \in 1..Len(RenderCalls) : req[r].pc = RenderCalls[k]

C5_NoExclusionBetweenRenderers ==
    \A r \in Requests : \A o \in Requests \ { r } :
      Rendering(r) =>
        /\ (req[o].pc = "idle" /\ \A x \in Requests : x < o => req[x].pc # "idle")
             => ENABLED Receive(o)
        /\ req[o].pc = "generate_feature_importance" => ENABLED GenerateFeatureImportance(o)
        /\ req[o].pc = "generate_radar_chart" => ENABLED GenerateRadarChart(o)
        /\ req[o].pc = "generate_gauge_chart" => ENABLED GenerateGaugeChart(o)
        /\ req[o].pc = "generate_distribution_chart" => ENABLED GenerateDistributionChart(o)

\* a response whose page refers to the four charts while the files on disk come
\* from two requests, one of them holding another request's data
C5_Witness ==
    \E r \in Requests : \E o \in Requests \ { r } :
      /\ Done(r) /\ Done(o)
      /\ req[r].route = "predict" /\ req[o].route = "predict"
      /\ req[r].form # req[o].form
      /\ The(req[r].page).plots = Charts
      /\ The(static["radar_chart.png"]).by = o
      /\ The(static["radar_chart.png"]).drawing # radar_drawing(req[r].input_data)
      /\ The(static["gauge_chart.png"]).by = r
      /\ The(static["distribution_chart.png"]).by = o

\* C6, as claimed: every request of any of the three operations that is
\* answered has written the four chart files and its page refers to them.
C6_EveryOperationWritesCharts ==
    \A r \in Requests :
      Done(r) => /\ req[r].wrote = Charts
                 /\ The(req[r].page).plots = Charts

\* C6, amended: every answered feasibility request has written the four chart
\* files and its page refers to the four; a cost or time request writes no
\* chart file and its page refers to none.
C6_OnlyFeasibilityWritesCharts ==
    \A r \in Requests :
      /\ (Done(r) /\ req[r].route = "predict") =>
           /\ req[r].wrote = Charts
           /\ The(req[r].page).plots = Charts
           /\ \A c \in Charts : static[c] # Nothing
      /\ req[r].route \in { "predict-cost", "predict-time" } =>
           /\ req[r].wrote = {}
           /\ \A c \in Charts : static[c] # Nothing => The(static[c]).by # r
           /\ Done(r) => The(req[r].page).plots = {}

C6_Witness ==
    \E r \in Requests : \E o \in Requests \ { r } :
      /\ Done(r) /\ req[r].route = "predict" /\ req[r].wrote = Charts
      /\ Done(o) /\ req[o].route = "predict-cost" /\ The(req[o].page).plots = {}
      /\ \A c \in Charts : The(static[c]).by = r

\* the charts written by the renderers that run before `call`
WrittenBefore(call) ==
    { ChartOf(RenderCalls[k]) :
        k \in { j \in 1..Len(RenderCalls) :
                  \E n \in 1..Len(RenderCalls) : RenderCalls[n] = call /\ j < n } }

C8_EachArtifactLoadedOnce ==
    /\ boot = "serving" => \A f \in ArtifactFiles : loads[f] = 1
    /\ \A r \in Requests : req[r].pc # "idle" => boot = "serving"

C10_EveryLabelHasItsColour ==
    /\ \A r \in Requests :
         req[r].result_label # Nothing =>
           /\ The(req[r].result_label) \in { "Not Feasible", "Feasible", "Borderline" }
           /\ The(req[r].result_label) \in DOMAIN result_colors
    /\ static["gauge_chart.png"] # Nothing =>
         LET g == The(static["gauge_chart.png"]) IN
         /\ g.drawing.color # "#333"
         /\ g.drawing.needle =
              Min(Max(The(req[g.by].form).Risk_Assessment_Score * 10, 0), 100)

====
